---------------------------- MODULE Spec2Model ----------------------------
(***************************************************************************)
(* State-machine model of price_bot_amadeus.py: one process invocation     *)
(* ("run") after another over the files the script keeps between runs      *)
(* (price_state.json, .amadeus_token.json).  A run is split into steps at   *)
(* the places where it talks to the outside world: the OAuth request, each  *)
(* do_request call, the Telegram alert and the error report.                *)
(*                                                                         *)
(* Prices are whole numbers of the currency unit; percentages are kept in   *)
(* hundredths of a percent so that round(x, 2) is exact.  Wall-clock time   *)
(* is in seconds and advances in steps of ClockStep.                        *)
(***************************************************************************)
EXTENDS Integers, Sequences, FiniteSets, TLC

(***************************************************************************)
(* Bounds of the model.                                                    *)
(***************************************************************************)
MaxPrice == 2        \* well-formed totals are 0..MaxPrice
MaxResp == 2         \* offers in one search response
MaxOffersRun == 2    \* offers received over one run
MaxOffersLater == 1  \* offers received over one run that follows earlier offers
MaxOffers == 3       \* offers received over all runs
MaxSpan == 1         \* FECHA_HASTA is at most MaxSpan days after FECHA_DESDE
MaxCap == 2          \* MAX_DIAS ranges over 1..MaxCap
MaxNights == 2       \* NOCHES_MAX ranges over NOCHES_MIN..MaxNights
MaxTicks == 1        \* the clock advances at most MaxTicks times
MaxTokens == 2       \* tokens the OAuth server issues
MaxRuns == 3         \* process invocations

(***************************************************************************)
(* Program constants.                                                      *)
(***************************************************************************)
TOKEN_MARGIN == 60   \* "expires_at - 60 > now"
ClockStep == 60      \* seconds per clock step
TOKEN_TTL == 120     \* the "expires_in" of the OAuth server's answers
DropThreshold == 60  \* BAJA_MINIMA_PCT: between the drops prices of 0..MaxPrice give
Target == 1          \* PRECIO_OBJETIVO

\* Python's None / a present value: a sequence of length 0 / 1
NONE == <<>>
Some(x) == <<x>>

ROUTE == "ORIGEN->DESTINO"

CredNames == {"TELEGRAM_BOT_TOKEN", "TELEGRAM_CHAT_ID",
              "AMADEUS_CLIENT_ID", "AMADEUS_CLIENT_SECRET"}

(***************************************************************************)
(* Dates.  FECHA_DESDE / FECHA_HASTA are "DD/MM/YYYY" strings, modelled as  *)
(* <<d, m, y>>; to_iso reorders to <<y, m, d>>; date.fromisoformat checks   *)
(* the calendar and gives a date, modelled by its day number.               *)
(***************************************************************************)
to_iso(dmy) == <<dmy[3], dmy[2], dmy[1]>>

IsLeap(y) == (y % 4 = 0 /\ y % 100 # 0) \/ y % 400 = 0

DaysInMonth(y, m) ==
    IF m = 2 THEN (IF IsLeap(y) THEN 29 ELSE 28)
    ELSE IF m \in {4, 6, 9, 11} THEN 30 ELSE 31

BaseYear == 2025      \* the year of FECHA_DESDE; day numbers count from it

RECURSIVE DaysBeforeMonth(_, _)
DaysBeforeMonth(y, m) ==
    IF m = 1 THEN 0 ELSE DaysBeforeMonth(y, m - 1) + DaysInMonth(y, m - 1)

RECURSIVE DaysBeforeYear(_)
DaysBeforeYear(y) ==
    IF y <= BaseYear THEN 0
    ELSE DaysBeforeYear(y - 1) + (IF IsLeap(y - 1) THEN 366 ELSE 365)

ValidIso(iso) ==
    /\ iso[1] >= BaseYear
    /\ iso[2] \in 1..12
    /\ iso[3] \in 1..DaysInMonth(iso[1], iso[2])

\* date.fromisoformat: the day number (1 = 1 January of BaseYear)
fromisoformat(iso) == DaysBeforeYear(iso[1]) + DaysBeforeMonth(iso[1], iso[2]) + iso[3]

RECURSIVE YearOf(_, _)
YearOf(n, y) ==
    IF n <= (IF IsLeap(y) THEN 366 ELSE 365) THEN y
    ELSE YearOf(n - (IF IsLeap(y) THEN 366 ELSE 365), y + 1)

RECURSIVE MonthOf(_, _, _)
MonthOf(n, y, m) ==
    IF n <= DaysInMonth(y, m) THEN m ELSE MonthOf(n - DaysInMonth(y, m), y, m + 1)

\* date.isoformat: <<y, m, d>> of a day number
isoformat(n) ==
    LET y == YearOf(n, BaseYear)
        r == n - DaysBeforeYear(y)
        m == MonthOf(r, y, 1)
    IN  <<y, m, r - DaysBeforeMonth(y, m)>>

to_dmy(n) == LET iso == isoformat(n) IN <<iso[3], iso[2], iso[1]>>

BaseDay == fromisoformat(<<2025, 11, 30>>)

(***************************************************************************)
(* Offers and prices.  An offer as the search API returns it is            *)
(*   [total, uid, _nights, _route_summary]                                 *)
(* total = NONE stands for a price.total that is missing or that float()   *)
(* rejects; uid is the position of the offer among the offers received in  *)
(* the run (the identity of the Python dict).                              *)
(***************************************************************************)
RawPrices == {NONE} \cup {Some(p) : p \in 0..MaxPrice}

RawOffer(raw) == [total |-> raw, uid |-> 0, _nights |-> NONE, _route_summary |-> NONE]

\* a float: a finite value or float("inf")
INF == [inf |-> TRUE, v |-> 0]
Fin(x) == [inf |-> FALSE, v |-> x]

FloatLt(a, b) == ~a.inf /\ (b.inf \/ a.v < b.v)

\* float(o["price"]["total"]) raises
FloatRaises(o) == o.total = NONE

price_of(o) == IF FloatRaises(o) THEN INF ELSE Fin(o.total[1])

\* min(candidates, key=price_of): the first item no later item is strictly below
RECURSIVE MinFrom(_, _, _)
MinFrom(cands, i, best) ==
    IF i > Len(cands) THEN best
    ELSE MinFrom(cands, i + 1,
                 IF FloatLt(price_of(cands[i]), price_of(best)) THEN cands[i] ELSE best)

\* min() taking the first item whatever the prices
PyMin_first(cands) == cands[1]

PyMin(cands) == MinFrom(cands, 2, cands[1])

\* line 175: does the cheapest of this date replace best_offer
\* line 175 with <= for <
Replaces_orEqual(best_offer, cheapest) ==
    best_offer = NONE \/ ~FloatLt(price_of(best_offer[1]), price_of(cheapest))

Replaces(best_offer, cheapest) ==
    best_offer = NONE \/ FloatLt(price_of(cheapest), price_of(best_offer[1]))

(***************************************************************************)
(* round(n / d, 2) in hundredths, for d > 0: round half to even.           *)
(***************************************************************************)
RoundHundredths(n, d) ==
    LET q == (n * 100) \div d
        r == (n * 100) % d
    IN  IF 2 * r < d THEN q
        ELSE IF 2 * r > d THEN q + 1
        ELSE IF q % 2 = 0 THEN q ELSE q + 1

\* the drop with its operands exchanged
drop_pct_swapped(prev, total) ==
    RoundHundredths((total - prev) * 100, prev)

\* round((prev_min - total_price) * 100 / prev_min, 2), in hundredths of a percent
drop_pct(prev, total) ==
    RoundHundredths((prev - total) * 100, prev)

(***************************************************************************)
(* The state file.  A dict is a function on the keys it has; the file      *)
(* holds its JSON text, modelled as the sequence of <<key, value>> pairs.   *)
(***************************************************************************)
StateKeys == <<"min_price", "min_when", "min_route">>

Get(d, k) == IF k \in DOMAIN d THEN Some(d[k]) ELSE NONE

EmptyDict == [k \in {} |-> 0]

json_dumps(d) ==
    LET ks == SelectSeq(StateKeys, LAMBDA k : k \in DOMAIN d)
    IN  [i \in 1..Len(ks) |-> <<ks[i], d[ks[i]]>>]

json_loads(text) ==
    [k \in {text[i][1] : i \in DOMAIN text} |->
        text[CHOOSE i \in DOMAIN text : text[i][1] = k][2]]

(***************************************************************************)
(* State.                                                                  *)
(***************************************************************************)
VARIABLES
    cfg,           \* the module-level configuration (lines 9-14, 26-40)
    stateFile,     \* STATE_FILE: NONE (no file) or Some(JSON text)
    tokenFile,     \* TOKEN_FILE: NONE or Some([access_token, expires_at])
    now,           \* time.time()
    issued,        \* tokens the OAuth server has issued so far
    runs,          \* process invocations so far
    offersAll,     \* offers the search API has returned so far, over all runs
    pc,            \* where the process is
    exc,           \* the exception in flight
    headers,       \* the bearer token of the Authorization header
    gen,           \* the daterange generator: [started, d1, d2]
    count_days,
    dep_date,
    nights,
    candidates,
    best_offer,
    total_price,
    prev_min,
    state,         \* the dict main() loads, changes and saves
    debe_alertar,
    motivos,
    \* history, per run
    scanned,       \* departure dates the loop body ran for
    reqLog,        \* [departureDate, returnDate, nights] of every do_request call
    lastGets,      \* [token, status] of every GET of the do_request call just made
    lastFetch,     \* get_amadeus_token calls of the do_request call just made
    seen,          \* raw price.total of every offer received
    nOffers,       \* offers received
    origin,        \* for every offer received, the index in reqLog of its request
    net,           \* kinds of network calls made
    sent,          \* Telegram messages: [kind, ok]
    writes,        \* writes of STATE_FILE
    fileBefore,    \* STATE_FILE when the run started
    logged,        \* lines appended to LOG_FILE
    decision,      \* the decision of this run, once taken
    \* history, across runs
    last,          \* the decision of the latest earlier run that took one
    lastAlertFailed, \* whether the alert of that run failed
    pricesWritten  \* total_price of every run that reached save_state

loopVars == <<gen, count_days, dep_date, nights, candidates, best_offer>>
decVars == <<total_price, prev_min, state, debe_alertar, motivos>>
histVars == <<scanned, reqLog, lastGets, lastFetch, seen, nOffers, origin>>
outVars == <<net, sent, writes, logged, decision>>
vars == <<cfg, stateFile, tokenFile, now, issued, runs, offersAll, pc, exc, headers, gen, count_days,
          dep_date, nights, candidates, best_offer, total_price, prev_min, state,
          debe_alertar, motivos, scanned, reqLog, lastGets, lastFetch, seen, nOffers,
          origin, net, sent, writes, fileBefore, logged, decision, last,
          lastAlertFailed, pricesWritten>>

FECHA_DESDE == cfg.FECHA_DESDE
FECHA_HASTA == cfg.FECHA_HASTA
SOLO_IDA == cfg.SOLO_IDA
NOCHES_MIN == cfg.NOCHES_MIN
NOCHES_MAX == cfg.NOCHES_MAX
PRECIO_OBJETIVO == cfg.PRECIO_OBJETIVO
BAJA_MINIMA_PCT == cfg.BAJA_MINIMA_PCT
MAX_DIAS == cfg.MAX_DIAS
\* the credentials os.getenv finds
Env == cfg.env

\* FECHA_HASTA: the day before FECHA_DESDE, FECHA_DESDE .. MaxSpan days later, or
\* a date the calendar does not have
EndDates == {to_dmy(BaseDay + i) : i \in (0 - 1)..MaxSpan} \cup {<<31, 11, 2025>>}

Envs == {CredNames} \cup {CredNames \ {n} : n \in CredNames}

Configs ==
    [FECHA_DESDE : {to_dmy(BaseDay)},
     FECHA_HASTA : EndDates,
     SOLO_IDA : BOOLEAN,
     NOCHES_MIN : {1},
     NOCHES_MAX : {MaxNights},
     PRECIO_OBJETIVO : {Target},
     BAJA_MINIMA_PCT : {DropThreshold},
     MAX_DIAS : 1..MaxCap,
     env : Envs]

RunInit ==
    /\ exc = NONE
    /\ headers = NONE
    /\ gen = [started |-> FALSE, d1 |-> 0, d2 |-> 0]
    /\ count_days = 0
    /\ dep_date = NONE
    /\ nights = NONE
    /\ candidates = <<>>
    /\ best_offer = NONE
    /\ total_price = NONE
    /\ prev_min = NONE
    /\ state = EmptyDict
    /\ debe_alertar = FALSE
    /\ motivos = <<>>
    /\ scanned = <<>>
    /\ reqLog = <<>>
    /\ lastGets = <<>>
    /\ lastFetch = <<>>
    /\ seen = <<>>
    /\ nOffers = 0
    /\ origin = <<>>
    /\ net = {}
    /\ sent = <<>>
    /\ writes = 0
    /\ logged = <<>>
    /\ decision = NONE

Init ==
    /\ cfg \in Configs
    /\ stateFile = NONE
    /\ tokenFile = NONE
    /\ now = 0
    /\ issued = 0
    /\ runs = 0
    /\ offersAll = 0
    /\ pc = "idle"
    /\ fileBefore = NONE
    /\ last = NONE
    /\ lastAlertFailed = FALSE
    /\ pricesWritten = {}
    /\ RunInit

(***************************************************************************)
(* get_amadeus_token (lines 78-101).  ans is what the OAuth server would    *)
(* answer if asked.                                                        *)
(***************************************************************************)
CacheValid ==
    /\ tokenFile # NONE
    /\ tokenFile[1].expires_at - TOKEN_MARGIN > now

OAuthAnswers ==
    {[status |-> 401, expires_in |-> 0]} \cup
    (IF issued < MaxTokens
     THEN {[status |-> 200, expires_in |-> e] : e \in {TOKEN_TTL}}
     ELSE {})

get_amadeus_token(ans) ==
    IF CacheValid
    THEN [ok |-> TRUE, token |-> tokenFile[1].access_token, file |-> tokenFile,
          issued |-> issued, oauth |-> FALSE, log |-> <<>>]
    ELSE IF ans.status >= 400
    THEN [ok |-> FALSE, token |-> 0, file |-> tokenFile,
          issued |-> issued, oauth |-> TRUE, log |-> <<"ERROR TOKEN BODY">>]
    ELSE [ok |-> TRUE, token |-> issued + 1,
          file |-> Some([access_token |-> issued + 1,
                         expires_at |-> now + ans.expires_in]),
          issued |-> issued + 1, oauth |-> TRUE, log |-> <<>>]

(***************************************************************************)
(* do_request (lines 113-127): st1 is the status of the first GET, ans the  *)
(* OAuth answer and st2 the status of the second GET if there is one, data  *)
(* the offers of a 2xx body.                                               *)
(***************************************************************************)
SearchStatuses == {200, 401, 500}

\* do_request taking a failed GET for an empty answer
do_request_lenient(st1, ans, st2, data) ==
    LET first == <<[token |-> headers[1], status |-> st1]>>
        t == get_amadeus_token(ans)
    IN  IF st1 # 401
        THEN [ok |-> TRUE, data |-> IF st1 < 400 THEN data ELSE <<>>,
              headers |-> headers, file |-> tokenFile, issued |-> issued,
              gets |-> first, fetch |-> <<>>, oauth |-> FALSE, log |-> <<>>]
        ELSE IF ~t.ok
        THEN [ok |-> FALSE, data |-> <<>>, headers |-> headers,
              file |-> t.file, issued |-> t.issued, gets |-> first,
              fetch |-> <<[ok |-> FALSE, token |-> 0, oauth |-> t.oauth]>>,
              oauth |-> t.oauth, log |-> t.log]
        ELSE [ok |-> TRUE, data |-> IF st2 < 400 THEN data ELSE <<>>,
              headers |-> Some(t.token), file |-> t.file, issued |-> t.issued,
              gets |-> Append(first, [token |-> t.token, status |-> st2]),
              fetch |-> <<[ok |-> TRUE, token |-> t.token, oauth |-> t.oauth]>>,
              oauth |-> t.oauth, log |-> <<>>]

do_request(st1, ans, st2, data) ==
    LET first == <<[token |-> headers[1], status |-> st1]>>
        t == get_amadeus_token(ans)
    IN  IF st1 # 401
        THEN [ok |-> st1 < 400, data |-> data, headers |-> headers,
              file |-> tokenFile, issued |-> issued, gets |-> first,
              fetch |-> <<>>, oauth |-> FALSE,
              log |-> IF st1 >= 400 THEN <<"ERROR BODY">> ELSE <<>>]
        ELSE IF ~t.ok
        THEN [ok |-> FALSE, data |-> <<>>, headers |-> headers,
              file |-> t.file, issued |-> t.issued, gets |-> first,
              fetch |-> <<[ok |-> FALSE, token |-> 0, oauth |-> t.oauth]>>,
              oauth |-> t.oauth, log |-> t.log]
        ELSE [ok |-> st2 < 400, data |-> data, headers |-> Some(t.token),
              file |-> t.file, issued |-> t.issued,
              gets |-> Append(first, [token |-> t.token, status |-> st2]),
              fetch |-> <<[ok |-> TRUE, token |-> t.token, oauth |-> t.oauth]>>,
              oauth |-> t.oauth,
              log |-> IF st2 >= 400 THEN <<"ERROR BODY">> ELSE <<>>]

(***************************************************************************)
(* Raising.  At an exception the frames of the search and of main() are     *)
(* unwound: their locals are gone when the handler of the __main__ block    *)
(* (line 261) runs.                                                        *)
(***************************************************************************)
NoLocals ==
    /\ gen' = [started |-> FALSE, d1 |-> 0, d2 |-> 0]
    /\ count_days' = 0
    /\ dep_date' = NONE
    /\ nights' = NONE
    /\ candidates' = <<>>
    /\ best_offer' = NONE
    /\ total_price' = NONE
    /\ prev_min' = NONE
    /\ state' = EmptyDict
    /\ debe_alertar' = FALSE
    /\ motivos' = <<>>
    /\ seen' = <<>>
    /\ nOffers' = 0
    /\ origin' = <<>>

Unwind ==
    /\ headers' = NONE
    /\ NoLocals

Raise(e) ==
    /\ pc' = "except"
    /\ exc' = Some(e)
    /\ Unwind

(***************************************************************************)
(* A process starts: main() up to the first search request (lines 184-194,  *)
(* 108-111, 129-130).                                                      *)
(***************************************************************************)
\* lines 184-191 looking at the Telegram credentials only
MissingCredential_telegramOnly ==
    ~({"TELEGRAM_BOT_TOKEN", "TELEGRAM_CHAT_ID"} \subseteq Env)

\* lines 184-191
MissingCredential == Env # CredNames

Start ==
    /\ pc \in {"idle", "done", "failed"}
    /\ runs < MaxRuns
    /\ runs' = runs + 1
    /\ last' = IF decision # NONE THEN decision ELSE last
    /\ lastAlertFailed' = IF decision # NONE THEN pc = "failed" ELSE lastAlertFailed
    /\ decision' = NONE
    /\ fileBefore' = stateFile
    /\ scanned' = <<>>
    /\ reqLog' = <<>>
    /\ lastGets' = <<>>
    /\ lastFetch' = <<>>
    /\ sent' = <<>>
    /\ writes' = 0
    /\ UNCHANGED <<cfg, stateFile, now, offersAll, pricesWritten>>
    /\ IF MissingCredential
       THEN /\ Raise("RuntimeError")
            /\ net' = {}
            /\ logged' = <<>>
            /\ UNCHANGED <<tokenFile, issued>>
       ELSE \E ans \in OAuthAnswers :
              LET t == get_amadeus_token(ans)
              IN  /\ tokenFile' = t.file
                  /\ issued' = t.issued
                  /\ net' = IF t.oauth THEN {"oauth"} ELSE {}
                  /\ logged' = <<"Buscando precio">> \o t.log
                  /\ IF t.ok
                     THEN /\ NoLocals
                          /\ headers' = Some(t.token)
                          /\ exc' = NONE
                          /\ pc' = "loop"
                     ELSE Raise("HTTPError")

(***************************************************************************)
(* The head of the loop over daterange (lines 69-75, 132-135), and the      *)
(* return of buscar_mejor_precio_amadeus when the loop ends (line 181).     *)
(***************************************************************************)
\* line 73
InWindow(d1, d2) == d1 <= d2

\* line 133 off by one
CapReached_late(count) == count > MAX_DIAS

\* line 133
CapReached(count) == count >= MAX_DIAS

LoopHead ==
    /\ pc = "loop"
    /\ UNCHANGED <<cfg, stateFile, tokenFile, now, issued, runs, offersAll,
                   fileBefore, last, lastAlertFailed, pricesWritten, reqLog, lastGets, lastFetch>>
    /\ UNCHANGED outVars
    /\ LET iso1 == to_iso(FECHA_DESDE)
           iso2 == to_iso(FECHA_HASTA)
       IN  IF ~gen.started /\ ~(ValidIso(iso1) /\ ValidIso(iso2))
           THEN /\ Raise("ValueError")
                /\ scanned' = scanned
           ELSE LET g == IF gen.started THEN gen
                         ELSE [started |-> TRUE, d1 |-> fromisoformat(iso1),
                               d2 |-> fromisoformat(iso2)]
                IN  /\ UNCHANGED <<exc, headers, best_offer, seen, nOffers, origin>>
                    /\ UNCHANGED decVars
                    /\ IF InWindow(g.d1, g.d2) /\ ~CapReached(count_days)
                       THEN /\ gen' = [g EXCEPT !.d1 = g.d1 + 1]
                            /\ dep_date' = Some(g.d1)
                            /\ count_days' = count_days + 1
                            /\ scanned' = Append(scanned, g.d1)
                            /\ candidates' = <<>>
                            /\ nights' = IF SOLO_IDA THEN NONE ELSE Some(NOCHES_MIN)
                            /\ pc' = IF SOLO_IDA \/ NOCHES_MIN <= NOCHES_MAX
                                     THEN "request" ELSE "reduce"
                       ELSE /\ gen' = g
                            /\ pc' = "decide"
                            /\ UNCHANGED <<count_days, dep_date, nights, candidates,
                                           scanned>>

(***************************************************************************)
(* One search request and what the loop does with its answer (lines         *)
(* 137-163).                                                               *)
(***************************************************************************)
Min2(a, b) == IF a < b THEN a ELSE b

\* offers this run may still receive: a run that follows offers of earlier
\* runs receives at most MaxOffersLater
OffersLeft ==
    Min2((IF offersAll = nOffers THEN MaxOffersRun ELSE MaxOffersLater) - nOffers,
         MaxOffers - offersAll)

Responses == UNION {[1..n -> RawPrices] : n \in 0..Min2(MaxResp, OffersLeft)}

\* the answers that matter to do_request: the OAuth answer and the second GET
\* after a first 401 only, a body after a final 2xx only
RetryAnswers(st1) == IF st1 = 401 THEN OAuthAnswers ELSE {[status |-> 401, expires_in |-> 0]}
RetryStatuses(st1) == IF st1 = 401 THEN SearchStatuses ELSE {st1}
Bodies(st1, st2) == IF st1 < 400 \/ (st1 = 401 /\ st2 < 400) THEN Responses ELSE {<<>>}

\* lines 161-162 tagging with NOCHES_MIN whatever the request
Tagged_min(data, n) ==
    [i \in 1..Len(data) |->
        [total |-> data[i], uid |-> nOffers + i,
         _nights |-> IF n = NONE THEN NONE ELSE Some(NOCHES_MIN),
         _route_summary |-> NONE]]

\* lines 161-162: the offers of a response, tagged with the nights of the request
Tagged(data, n) ==
    [i \in 1..Len(data) |->
        [total |-> data[i], uid |-> nOffers + i, _nights |-> n,
         _route_summary |-> NONE]]

DoRequest ==
    /\ pc = "request"
    /\ UNCHANGED <<cfg, stateFile, now, runs, fileBefore, last, lastAlertFailed, pricesWritten, scanned, sent, writes,
                   decision>>
    /\ \E st1 \in SearchStatuses :
       \E ans \in RetryAnswers(st1), st2 \in RetryStatuses(st1) :
       \E data \in Bodies(st1, st2) :
         LET r == do_request(st1, ans, st2, data)
             dep == dep_date[1]
             params == [departureDate |-> isoformat(dep),
                        returnDate |-> IF SOLO_IDA THEN NONE
                                       ELSE Some(isoformat(dep + nights[1])),
                        nights |-> nights]
         IN  /\ reqLog' = Append(reqLog, params)
             /\ lastGets' = r.gets
             /\ lastFetch' = r.fetch
             /\ tokenFile' = r.file
             /\ issued' = r.issued
             /\ net' = net \cup {"search"} \cup (IF r.oauth THEN {"oauth"} ELSE {})
             /\ logged' = logged \o r.log
             /\ IF ~r.ok
                THEN /\ Raise("HTTPError")
                     /\ offersAll' = offersAll
                ELSE /\ exc' = exc
                     /\ headers' = r.headers
                     /\ seen' = seen \o r.data
                     /\ nOffers' = nOffers + Len(r.data)
                     /\ origin' = origin \o [i \in 1..Len(r.data) |-> Len(reqLog) + 1]
                     /\ offersAll' = offersAll + Len(r.data)
                     /\ UNCHANGED <<gen, count_days, dep_date, best_offer>>
                     /\ UNCHANGED decVars
                     /\ IF SOLO_IDA
                        THEN /\ candidates' = Tagged(r.data, NONE)
                             /\ nights' = nights
                             /\ pc' = "reduce"
                        ELSE /\ candidates' = candidates \o Tagged(r.data, nights)
                             /\ IF nights[1] < NOCHES_MAX
                                THEN /\ nights' = Some(nights[1] + 1)
                                     /\ pc' = "request"
                                ELSE /\ nights' = nights
                                     /\ pc' = "reduce"

(***************************************************************************)
(* The end of the loop body: the cheapest offer of the date against         *)
(* best_offer (lines 165-179).                                             *)
(***************************************************************************)
Reduce ==
    /\ pc = "reduce"
    /\ pc' = "loop"
    /\ best_offer' =
         IF candidates = <<>> THEN best_offer
         ELSE LET cheapest == PyMin(candidates)
              IN  IF Replaces(best_offer, cheapest)
                  THEN Some([cheapest EXCEPT !._route_summary = Some(ROUTE)])
                  ELSE best_offer
    /\ lastGets' = <<>>
    /\ lastFetch' = <<>>
    /\ UNCHANGED <<cfg, stateFile, tokenFile, now, issued, runs, offersAll, fileBefore,
                   last, lastAlertFailed, pricesWritten, exc, headers, gen, count_days, dep_date, nights, candidates,
                   scanned, reqLog, seen, nOffers, origin>>
    /\ UNCHANGED decVars
    /\ UNCHANGED outVars

(***************************************************************************)
(* The alert decision (lines 214-238) on the loaded state dict st.          *)
(***************************************************************************)
\* line 232, in hundredths of a percent
DropReached(drop) == drop >= BAJA_MINIMA_PCT * 100

\* variants of line 220 with the comparison changed
IsNewMin_higher(prev, total) == prev = NONE \/ total > prev[1]
IsNewMin_orEqual(prev, total) == prev = NONE \/ total <= prev[1]
IsNewMin_bigDrop(prev, total) ==
    \/ prev = NONE
    \/ /\ total < prev[1]
       /\ prev[1] # 0
       /\ DropReached(drop_pct(prev[1], total))

\* line 220
IsNewMin(prev, total) == prev = NONE \/ total < prev[1]

\* line 236
AtTarget(total) == total <= PRECIO_OBJETIVO

Reason(kind, pct) == [kind |-> kind, pct |-> pct]

\* lines 226-228 without line 228
Record_noRoute(st, total, when, route) ==
    [k \in DOMAIN st \cup {"min_price", "min_when"} |->
        IF k = "min_price" THEN total
        ELSE IF k = "min_when" THEN when
        ELSE st[k]]

\* lines 226-228 keeping the timestamp and the route the state already has
Record_priceOnly(st, total, when, route) ==
    [k \in DOMAIN st \cup {"min_price", "min_when", "min_route"} |->
        IF k = "min_price" THEN total
        ELSE IF k \in DOMAIN st THEN st[k]
        ELSE IF k = "min_when" THEN when
        ELSE route]

\* lines 226-228
Record(st, total, when, route) ==
    [k \in DOMAIN st \cup {"min_price", "min_when", "min_route"} |->
        IF k = "min_price" THEN total
        ELSE IF k = "min_when" THEN when
        ELSE IF k = "min_route" THEN route
        ELSE st[k]]

AlertDecision(st, total, when, route) ==
    LET prev == Get(st, "min_price")
        newmin == IsNewMin(prev, total)
        \* ZeroDivisionError at line 224 or 231
        raises == prev # NONE /\ prev[1] = 0
        drop == IF prev = NONE \/ raises THEN 0 ELSE drop_pct(prev[1], total)
        byDrop == ~newmin /\ DropReached(drop)
        m1 == IF newmin
              THEN (IF prev = NONE THEN <<Reason("first", 0)>>
                    ELSE <<Reason("new_min", drop)>>)
              ELSE IF byDrop THEN <<Reason("drop", drop)>> ELSE <<>>
        m2 == IF AtTarget(total) THEN <<Reason("target", 0)>> ELSE <<>>
    IN  [raises |-> raises,
         prev_min |-> prev,
         drop |-> drop,
         state |-> IF newmin THEN Record(st, total, when, route) ELSE st,
         debe_alertar |-> newmin \/ byDrop \/ AtTarget(total),
         motivos |-> m1 \o m2]

\* load_state never finding the file
load_state_empty == EmptyDict

\* load_state (lines 57-60)
load_state == IF stateFile = NONE THEN EmptyDict ELSE json_loads(stateFile[1])

\* save_state (lines 62-63): the new content of STATE_FILE
save_state(st) == Some(json_dumps(st))

\* the state written back before the "no offer" return
sin_resultados_saves ==
    [stateFile |-> save_state(load_state), writes |-> writes + 1,
     logged |-> Append(logged, "Sin resultados")]

\* lines 196-198: what a run whose search selected no offer leaves behind
sin_resultados ==
    [stateFile |-> stateFile, writes |-> writes,
     logged |-> Append(logged, "Sin resultados")]

\* line 240 reached only by a run that alerts
after_decision_onAlert(d) ==
    IF d.debe_alertar
    THEN [stateFile |-> save_state(d.state), writes |-> writes + 1]
    ELSE [stateFile |-> stateFile, writes |-> writes]

\* line 240 moved behind the alert: a run that alerts has not written yet
after_decision_unlessAlert(d) ==
    IF d.debe_alertar
    THEN [stateFile |-> stateFile, writes |-> writes]
    ELSE [stateFile |-> save_state(d.state), writes |-> writes + 1]

\* line 240: what the decision d leaves in STATE_FILE
after_decision(d) ==
    [stateFile |-> save_state(d.state), writes |-> writes + 1]

(***************************************************************************)
(* main() after the search: lines 196-240 and the "no alert" log line 256.  *)
(***************************************************************************)
Decide ==
    /\ pc = "decide"
    /\ UNCHANGED <<cfg, tokenFile, now, issued, runs, offersAll, fileBefore, last, lastAlertFailed,
                   scanned, reqLog, lastGets, lastFetch, net, sent>>
    /\ IF best_offer = NONE
       THEN /\ logged' = sin_resultados.logged
            /\ stateFile' = sin_resultados.stateFile
            /\ writes' = sin_resultados.writes
            /\ pc' = "done"
            /\ UNCHANGED <<exc, headers, seen, nOffers, origin, decision, pricesWritten>>
            /\ UNCHANGED loopVars
            /\ UNCHANGED decVars
       ELSE IF FloatRaises(best_offer[1])
       THEN /\ Raise("PriceError")
            /\ UNCHANGED <<logged, stateFile, writes, decision, pricesWritten>>
       ELSE LET total == best_offer[1].total[1]
                d == AlertDecision(load_state, total, now,
                                   best_offer[1]._route_summary[1])
            IN  IF d.raises
                THEN /\ Raise("ZeroDivisionError")
                     /\ UNCHANGED <<logged, stateFile, writes, decision, pricesWritten>>
                ELSE /\ total_price' = Some(total)
                     /\ prev_min' = d.prev_min
                     /\ state' = d.state
                     /\ debe_alertar' = d.debe_alertar
                     /\ motivos' = d.motivos
                     /\ decision' = Some([prev_min |-> d.prev_min,
                                          total_price |-> total,
                                          drop |-> d.drop,
                                          debe_alertar |-> d.debe_alertar,
                                          motivos |-> d.motivos])
                     /\ stateFile' = after_decision(d).stateFile
                     /\ writes' = after_decision(d).writes
                     /\ pricesWritten' = pricesWritten \cup {total}
                     /\ UNCHANGED <<exc, headers, seen, nOffers, origin>>
                     /\ UNCHANGED loopVars
                     /\ IF d.debe_alertar
                        THEN /\ pc' = "notify"
                             /\ logged' = logged
                        ELSE /\ pc' = "done"
                             /\ logged' = Append(logged, "Sin alerta")

(***************************************************************************)
(* send_telegram(msg) (lines 51-55, 252-254).                              *)
(***************************************************************************)
Notify ==
    /\ pc = "notify"
    /\ net' = net \cup {"telegram"}
    /\ UNCHANGED <<cfg, stateFile, tokenFile, now, issued, runs, offersAll, fileBefore,
                   last, lastAlertFailed, pricesWritten, scanned, reqLog, lastGets, lastFetch, writes, decision>>
    /\ \E ok \in BOOLEAN :
         /\ sent' = Append(sent, [kind |-> "alert", ok |-> ok])
         /\ IF ok
            THEN /\ logged' = Append(logged, "ALERTA enviada")
                 /\ pc' = "done"
                 /\ UNCHANGED <<exc, headers, seen, nOffers, origin>>
                 /\ UNCHANGED loopVars
                 /\ UNCHANGED decVars
            ELSE /\ logged' = logged
                 /\ Raise("HTTPError")

(***************************************************************************)
(* The handler of the __main__ block (lines 261-272).                      *)
(***************************************************************************)
\* lines 265-271 without the inner try: a report that fails replaces the
\* exception
after_report_unguarded(ok) == IF ok THEN exc ELSE Some("ConnectionError")

\* lines 265-271: the exception the process ends with, after a report that was
\* delivered (ok) or was not
after_report(ok) == exc

\* line 264
CanReport == {"TELEGRAM_BOT_TOKEN", "TELEGRAM_CHAT_ID"} \subseteq Env

Except ==
    /\ pc = "except"
    /\ logged' = Append(logged, "ERROR")
    /\ IF CanReport
       THEN /\ net' = net \cup {"telegram"}
            /\ \E ok \in BOOLEAN :
                 /\ sent' = Append(sent, [kind |-> "error", ok |-> ok])
                 /\ exc' = after_report(ok)
       ELSE /\ UNCHANGED <<net, sent>>
            /\ exc' = exc
    /\ pc' = "failed"
    /\ UNCHANGED <<cfg, stateFile, tokenFile, now, issued, runs, offersAll, fileBefore,
                   last, lastAlertFailed, pricesWritten, headers, scanned, reqLog,
                   lastGets, lastFetch, seen, nOffers, origin, writes, decision>>
    /\ UNCHANGED loopVars
    /\ UNCHANGED decVars

(***************************************************************************)
(* Time passes.  The clock is read by get_amadeus_token (line 79) and by    *)
(* line 227 only, so a step of the clock is taken right before a step that  *)
(* reads it: elsewhere it commutes with the step that follows.              *)
(***************************************************************************)
Tick ==
    /\ pc \in {"idle", "done", "failed", "request", "decide"}
    /\ now + ClockStep <= MaxTicks * ClockStep
    /\ now' = now + ClockStep
    /\ UNCHANGED <<cfg, stateFile, tokenFile, issued, runs, offersAll, fileBefore,
                   last, lastAlertFailed, pricesWritten, pc, exc, headers>>
    /\ UNCHANGED loopVars
    /\ UNCHANGED decVars
    /\ UNCHANGED histVars
    /\ UNCHANGED outVars

Next ==
    \/ Start
    \/ LoopHead
    \/ DoRequest
    \/ Reduce
    \/ Decide
    \/ Notify
    \/ Except
    \/ Tick

Spec == Init /\ [][Next]_vars

(***************************************************************************)
(* Properties.                                                             *)
(***************************************************************************)
\* min_price of a content of STATE_FILE
MinOf(file) == Get(IF file = NONE THEN EmptyDict ELSE json_loads(file[1]), "min_price")

WindowStart == fromisoformat(to_iso(FECHA_DESDE))
WindowEnd == fromisoformat(to_iso(FECHA_HASTA))
DatesValid == ValidIso(to_iso(FECHA_DESDE)) /\ ValidIso(to_iso(FECHA_HASTA))
ValidWindow == DatesValid /\ WindowStart <= WindowEnd
Inverted == DatesValid /\ WindowStart > WindowEnd

Kinds(ms) == {ms[i].kind : i \in DOMAIN ms}

\* C1: the min_price persisted in STATE_FILE never increases: once the file
\* holds a minimum, every step leaves a minimum that is no higher.
C1_MinNeverIncreases ==
    [][MinOf(stateFile) # NONE =>
         /\ MinOf(stateFile') # NONE
         /\ MinOf(stateFile')[1] <= MinOf(stateFile)[1]]_vars

\* a run lowered a minimum that an earlier run had stored
C1_Witness ==
    /\ pc \in {"notify", "done"}
    /\ MinOf(fileBefore) # NONE
    /\ MinOf(stateFile)[1] < MinOf(fileBefore)[1]

\* C2: when a run decides on the same prior minimum and the same price as the
\* decision before it, it takes the same decision (alert flag and reasons) and
\* leaves STATE_FILE (minimum, timestamp, route) as it found it.
C2_Idempotent ==
    (/\ decision # NONE
     /\ last # NONE
     /\ last[1].prev_min = decision[1].prev_min
     /\ last[1].total_price = decision[1].total_price)
    => /\ decision[1].debe_alertar = last[1].debe_alertar
       /\ decision[1].motivos = last[1].motivos
       /\ stateFile = fileBefore

\* two decisions in a row on the same prior minimum and the same price
C2_Witness ==
    /\ decision # NONE
    /\ last # NONE
    /\ last[1].prev_min = decision[1].prev_min
    /\ last[1].total_price = decision[1].total_price
    /\ now > 0

\* C3: when the search returns, the offer it returns is one of the offers
\* received and no offer received has a lower price (price_of, a malformed
\* price counting as infinite); it returns None exactly when no offer was
\* received.
C3_CheapestSelected ==
    pc = "decide" =>
        IF seen = <<>> THEN best_offer = NONE
        ELSE /\ best_offer # NONE
             /\ best_offer[1].uid \in DOMAIN seen
             /\ seen[best_offer[1].uid] = best_offer[1].total
             /\ \A i \in DOMAIN seen :
                  ~FloatLt(price_of(RawOffer(seen[i])), price_of(best_offer[1]))

\* the second of two offers is selected over a first one with a higher price
C3_Witness ==
    /\ pc = "decide"
    /\ Len(seen) = 2
    /\ seen[1] # NONE
    /\ best_offer # NONE
    /\ best_offer[1].uid = 2

\* C4: an offer whose price is missing or malformed is never the offer the
\* search returns; when every offer received is malformed the search returns
\* no offer.
C4_MalformedNeverSelected ==
    (pc = "decide" /\ best_offer # NONE) => ~FloatRaises(best_offer[1])

\* C5: for a valid window and a positive cap, the departure dates scanned are
\* the days from the window start on, one day apart, at most MAX_DIAS of them
\* and none after the window end.
C5_DatesScanned ==
    (ValidWindow /\ MAX_DIAS > 0) =>
        /\ Len(scanned) <= MAX_DIAS
        /\ \A i \in DOMAIN scanned :
             /\ scanned[i] = WindowStart + i - 1
             /\ scanned[i] <= WindowEnd

\* the scan of a window of two days is over
C5_Witness ==
    /\ ValidWindow
    /\ pc = "decide"
    /\ Len(scanned) = 2

\* C6: with the window start after the window end the run fails: it never
\* gets through an enumeration of zero dates to end as a "no offer" run.
C6_InvalidWindowFails == Inverted => pc \notin {"decide", "done"}

\* C7: after a first GET answered 401, do_request fetches one token from the
\* OAuth server, different from the rejected one, sends the second GET with
\* it, and a failure of the second GET ends the run.
C7_FreshTokenOnRetry ==
    (lastGets # <<>> /\ lastGets[1].status = 401) =>
        /\ Len(lastFetch) = 1
        /\ lastFetch[1].ok =>
             /\ lastFetch[1].oauth
             /\ lastFetch[1].token # lastGets[1].token
             /\ Len(lastGets) = 2
             /\ lastGets[2].token = lastFetch[1].token
             /\ lastGets[2].status >= 400 => pc = "except"

\* C8: when the search ends without having received an offer, the run ends
\* with no alert: STATE_FILE is not written, no decision is taken and no
\* message is sent.
C8_NoOfferNoEffect ==
    [][(pc = "decide" /\ seen = <<>> /\ pc' # "decide") =>
         /\ pc' = "done"
         /\ stateFile' = stateFile
         /\ writes' = 0
         /\ decision' = NONE
         /\ ~debe_alertar'
         /\ sent' = <<>>
         /\ "telegram" \notin net']_vars

\* a run that made two requests and received no offer ended, with a minimum
\* on file
C8_Witness ==
    /\ pc = "done"
    /\ seen = <<>>
    /\ Len(reqLog) >= 2
    /\ stateFile # NONE
    /\ stateFile = fileBefore

\* C9: with a positive prior minimum and a positive BAJA_MINIMA_PCT, a price
\* that is not below the prior minimum gives a drop <= 0 and no drop reason;
\* if the price is also above PRECIO_OBJETIVO there is no reason, no alert and
\* no message.
C9_NoDropAtOrAboveMinimum ==
    (/\ decision # NONE
     /\ decision[1].prev_min # NONE
     /\ decision[1].prev_min[1] > 0
     /\ BAJA_MINIMA_PCT > 0
     /\ decision[1].total_price >= decision[1].prev_min[1])
    => /\ decision[1].drop <= 0
       /\ Kinds(decision[1].motivos) \cap {"drop", "new_min", "first"} = {}
       /\ decision[1].total_price > PRECIO_OBJETIVO =>
            /\ decision[1].motivos = <<>>
            /\ ~decision[1].debe_alertar
            /\ pc = "done"
            /\ sent = <<>>

\* a price above both the prior minimum and the target was decided on
C9_Witness ==
    /\ decision # NONE
    /\ decision[1].prev_min # NONE
    /\ decision[1].prev_min[1] > 0
    /\ decision[1].total_price > decision[1].prev_min[1]
    /\ decision[1].total_price > PRECIO_OBJETIVO
    /\ pc = "done"

\* C10: a price strictly below the prior minimum gives an alert whose first
\* reason is "new minimum", whatever the drop against BAJA_MINIMA_PCT, and the
\* stored minimum becomes the price; "at or below target" follows it exactly
\* when the price is <= PRECIO_OBJETIVO.
C10_NewMinimumAlerts ==
    (/\ decision # NONE
     /\ decision[1].prev_min # NONE
     /\ decision[1].total_price < decision[1].prev_min[1])
    => /\ decision[1].debe_alertar
       /\ decision[1].motivos # <<>>
       /\ decision[1].motivos[1].kind = "new_min"
       /\ MinOf(stateFile) = Some(decision[1].total_price)
       /\ IF decision[1].total_price <= PRECIO_OBJETIVO
          THEN /\ Len(decision[1].motivos) = 2
               /\ decision[1].motivos[2].kind = "target"
          ELSE Len(decision[1].motivos) = 1

\* a new minimum at the target whose drop is below BAJA_MINIMA_PCT
C10_Witness ==
    /\ decision # NONE
    /\ decision[1].prev_min # NONE
    /\ decision[1].total_price < decision[1].prev_min[1]
    /\ decision[1].total_price = PRECIO_OBJETIVO
    /\ decision[1].drop < BAJA_MINIMA_PCT * 100
    /\ Len(decision[1].motivos) = 2

\* field k of a content of STATE_FILE
FieldOf(file, k) == Get(IF file = NONE THEN EmptyDict ELSE json_loads(file[1]), k)

\* the decision of this run recorded a new minimum (line 220)
DecidedNewMin ==
    /\ decision # NONE
    /\ \/ decision[1].prev_min = NONE
       \/ decision[1].total_price < decision[1].prev_min[1]

\* C11: with no minimum on file, a run that selects an offer of price c
\* alerts, its first reason is "first price" (no drop is computed, and no
\* "new minimum" or "drop" reason is given), and STATE_FILE holds c as the
\* minimum with the time of the decision and the route summary.
C11_FirstPriceRecorded ==
    (decision # NONE /\ decision[1].prev_min = NONE) =>
        /\ decision[1].debe_alertar
        /\ decision[1].motivos # <<>>
        /\ decision[1].motivos[1] = Reason("first", 0)
        /\ decision[1].drop = 0
        /\ Kinds(decision[1].motivos) \cap {"new_min", "drop"} = {}
        /\ FieldOf(stateFile, "min_price") = Some(decision[1].total_price)
        /\ FieldOf(stateFile, "min_route") = Some(ROUTE)
        /\ FieldOf(stateFile, "min_when") # NONE
        /\ FieldOf(stateFile, "min_when")[1] <= now
        /\ pc = "notify" => FieldOf(stateFile, "min_when") = Some(now)

\* the first price, above the target, has been recorded some time after the
\* process clock started
C11_Witness ==
    /\ decision # NONE
    /\ decision[1].prev_min = NONE
    /\ fileBefore = NONE
    /\ decision[1].total_price > PRECIO_OBJETIVO
    /\ pc = "notify"
    /\ now > 0

\* C12: a run that has taken its decision has written STATE_FILE exactly
\* once, with the state the decision left, also when the decision is "no
\* alert"; a run that has taken no decision (no offer, or a failure before
\* the decision) has not written it.
C12_WrittenOnceAfterDecision ==
    /\ decision # NONE =>
         /\ writes = 1
         /\ pc \in {"notify", "done"} => stateFile = save_state(state)
    /\ decision = NONE =>
         /\ writes = 0
         /\ stateFile = fileBefore

\* a run that decided "no alert" has ended, with its one write
C12_Witness ==
    /\ pc = "done"
    /\ decision # NONE
    /\ ~decision[1].debe_alertar
    /\ writes = 1

SomeCredentialAbsent == \E n \in CredNames : n \notin Env

\* C13: with a required credential absent a run makes no network call at
\* all: no token request, no search request, no Telegram request.
C13_NoNetworkCall == SomeCredentialAbsent => net = {}

\* C13 amended: with a required credential absent a run fails with the
\* RuntimeError of line 191 before any token or search request and before any
\* alert; the only network call it makes is the error report of the handler,
\* and only when both Telegram credentials are present.
C13_OnlyTheErrorReport ==
    (SomeCredentialAbsent /\ runs > 0) =>
        /\ pc \in {"except", "failed"}
        /\ exc = Some("RuntimeError")
        /\ net \subseteq {"telegram"}
        /\ reqLog = <<>>
        /\ \A i \in DOMAIN sent : sent[i].kind = "error"
        /\ Len(sent) <= 1
        /\ sent # <<>> =>
             /\ pc = "failed"
             /\ {"TELEGRAM_BOT_TOKEN", "TELEGRAM_CHAT_ID"} \subseteq Env

\* a run without an Amadeus credential has failed and reported the error
C13_Witness ==
    /\ SomeCredentialAbsent
    /\ pc = "failed"
    /\ "telegram" \in net
    /\ Len(sent) = 1

IsErrorReport(m) == m.kind = "error"

\* C14: a run that failed has attempted exactly one error report and ends
\* with the exception that made it fail.
C14_AlwaysReports ==
    pc = "failed" =>
        /\ exc # NONE
        /\ Len(SelectSeq(sent, IsErrorReport)) = 1

\* C14 amended: the handler attempts one error report when both Telegram
\* credentials are present and none otherwise; whether the report is
\* delivered or not, the process then ends abnormally with the exception that
\* made the run fail.
C14_ReportsThenPropagates ==
    [][pc = "except" =>
         /\ exc # NONE
         /\ exc' = exc
         /\ pc' = "failed"
         /\ IF {"TELEGRAM_BOT_TOKEN", "TELEGRAM_CHAT_ID"} \subseteq Env
            THEN /\ Len(sent') = Len(sent) + 1
                 /\ SubSeq(sent', 1, Len(sent)) = sent
                 /\ sent'[Len(sent')].kind = "error"
                 /\ Len(SelectSeq(sent', IsErrorReport)) = 1
            ELSE sent' = sent]_vars

\* a run ended with its HTTPError although the error report was not delivered
C14_Witness ==
    /\ pc = "failed"
    /\ exc = Some("HTTPError")
    /\ sent # <<>>
    /\ sent[Len(sent)].kind = "error"
    /\ ~sent[Len(sent)].ok

\* the last GET of the do_request call just made was answered with an error
RequestFailed == lastGets # <<>> /\ lastGets[Len(lastGets)].status >= 400

AfterRequestFailure ==
    /\ pc \in {"except", "failed"}
    /\ exc = Some("HTTPError")
    /\ best_offer = NONE
    /\ decision = NONE
    /\ writes = 0
    /\ stateFile = fileBefore
    /\ \A i \in DOMAIN sent : sent[i].kind = "error"

\* C15: once a search request has failed (an error status other than a first
\* 401, or after a first 401 a failed token request or a failed second GET)
\* the run is failing: until the next run starts there is no further search
\* request, no best offer, no decision, no write of STATE_FILE and no alert.
C15_RequestFailureIsFatal ==
    [][RequestFailed =>
         /\ AfterRequestFailure
         /\ runs' = runs => (AfterRequestFailure' /\ reqLog' = reqLog)]_vars

\* a run failed in a request of its first date with a second date still to
\* scan
C15_Witness ==
    /\ RequestFailed
    /\ pc = "failed"
    /\ DatesValid
    /\ WindowEnd > WindowStart
    /\ MAX_DIAS >= 2
    /\ Len(scanned) = 1
    /\ fileBefore # NONE

\* requests per departure date in round-trip mode (line 149)
NightsPerDate == NOCHES_MAX - NOCHES_MIN + 1

\* C16: in round-trip mode the requests made are, for each departure date
\* scanned in turn, one request per nights-count NOCHES_MIN..NOCHES_MAX in
\* ascending order with returnDate = departureDate + nights; every offer
\* received carries the nights-count of the request that returned it, and so
\* does the offer selected.
C16_NightsSweep ==
    (~SOLO_IDA /\ DatesValid) =>
        /\ \A i \in DOMAIN reqLog :
             LET d == scanned[((i - 1) \div NightsPerDate) + 1]
                 n == NOCHES_MIN + ((i - 1) % NightsPerDate)
             IN  /\ reqLog[i].departureDate = isoformat(d)
                 /\ reqLog[i].nights = Some(n)
                 /\ reqLog[i].returnDate = Some(isoformat(d + n))
        /\ pc \in {"loop", "reduce", "decide", "notify", "done"} =>
             Len(reqLog) = NightsPerDate * Len(scanned)
        /\ \A i \in DOMAIN candidates :
             candidates[i]._nights = reqLog[origin[candidates[i].uid]].nights
        /\ best_offer # NONE =>
             best_offer[1]._nights = reqLog[origin[best_offer[1].uid]].nights

\* the search over two dates returned an offer of a request for NOCHES_MAX
\* nights
C16_Witness ==
    /\ ~SOLO_IDA
    /\ pc = "decide"
    /\ Len(reqLog) = 2 * NightsPerDate
    /\ best_offer # NONE
    /\ best_offer[1]._nights = Some(NOCHES_MAX)
    /\ NOCHES_MAX > NOCHES_MIN

\* C17: the offer the search returns is the first of the offers received, in
\* the order they were received, that has the lowest price: every offer
\* received before it has a strictly higher price.
C17_FirstSeenWinsTies ==
    (pc = "decide" /\ best_offer # NONE) =>
        \A i \in 1..(best_offer[1].uid - 1) :
            FloatLt(price_of(best_offer[1]), price_of(RawOffer(seen[i])))

\* the first of two offers of the same lowest price was returned, the second
\* coming from a later request
C17_Witness ==
    /\ pc = "decide"
    /\ Len(seen) = 2
    /\ seen[1] # NONE
    /\ seen[2] = seen[1]
    /\ origin[2] > origin[1]
    /\ best_offer # NONE
    /\ best_offer[1].uid = 1

\* C18: the decision of a run whose price is not below the minimum on file
\* leaves STATE_FILE (minimum, timestamp, route) as it was; and a step that
\* changes the minimum on file is a decision that also sets the timestamp to
\* the time of the decision and the route to the route of the offer.
C18_MutatedOnlyOnNewMinimum ==
    [][/\ (/\ pc = "decide"
           /\ decision' # NONE
           /\ decision'[1].prev_min # NONE
           /\ decision'[1].total_price >= decision'[1].prev_min[1])
          => stateFile' = stateFile
       /\ FieldOf(stateFile', "min_price") # FieldOf(stateFile, "min_price")
          => /\ pc = "decide"
             /\ decision' # NONE
             /\ FieldOf(stateFile', "min_price") = Some(decision'[1].total_price)
             /\ FieldOf(stateFile', "min_when") = Some(now)
             /\ FieldOf(stateFile', "min_route") = Some(ROUTE)]_vars

\* a run decided on a price above the minimum on file, later than the
\* timestamp on file, and left the file as it was
C18_Witness ==
    /\ decision # NONE
    /\ decision[1].prev_min # NONE
    /\ decision[1].total_price > decision[1].prev_min[1]
    /\ pc = "done"
    /\ stateFile = fileBefore
    /\ FieldOf(stateFile, "min_when") # Some(now)

MinSet(S) == CHOOSE x \in S : \A y \in S : x <= y

\* C19: the minimum on file is the lowest total_price of the runs so far that
\* reached the write of STATE_FILE, and there is none on file exactly when no
\* run reached it.
C19_StoredMinIsMinOfRuns ==
    MinOf(stateFile) =
        IF pricesWritten = {} THEN NONE ELSE Some(MinSet(pricesWritten))

\* three runs wrote, the last one with a price above the minimum on file
C19_Witness ==
    /\ Cardinality(pricesWritten) >= 2
    /\ decision # NONE
    /\ decision[1].prev_min # NONE
    /\ decision[1].total_price > decision[1].prev_min[1]
    /\ last # NONE
    /\ last[1].prev_min # NONE

\* C20: a run that recorded a new minimum has it on file when the alert is
\* dispatched and after the alert failed; and the next run that decides, on
\* the same price (above PRECIO_OBJETIVO, BAJA_MINIMA_PCT positive), after a
\* run whose new-minimum alert failed, finds that price as the minimum and
\* decides "no alert".
C20_FailedAlertIsNotRepeated ==
    /\ (DecidedNewMin /\ pc \in {"notify", "except", "failed"}) =>
         MinOf(stateFile) = Some(decision[1].total_price)
    /\ (/\ decision # NONE
        /\ last # NONE
        /\ lastAlertFailed
        /\ (last[1].prev_min = NONE \/ last[1].total_price < last[1].prev_min[1])
        /\ decision[1].total_price = last[1].total_price
        /\ decision[1].total_price > PRECIO_OBJETIVO
        /\ BAJA_MINIMA_PCT > 0)
       => /\ decision[1].prev_min = Some(decision[1].total_price)
          /\ ~decision[1].debe_alertar
          /\ decision[1].motivos = <<>>
          /\ sent = <<>>

\* the run after a failed new-minimum alert saw the same price and ended
\* without an alert
C20_Witness ==
    /\ decision # NONE
    /\ last # NONE
    /\ lastAlertFailed
    /\ (last[1].prev_min = NONE \/ last[1].total_price < last[1].prev_min[1])
    /\ decision[1].total_price = last[1].total_price
    /\ decision[1].total_price > PRECIO_OBJETIVO
    /\ pc = "done"

=============================================================================
